---- MODULE Spec2Model ----
(***************************************************************************)
(* Image edit bot (bot.py.py): the per-user session (images, prompt), the  *)
(* per-user generation lock and the handlers on_image, on_text, clear_cmd  *)
(* and status_cmd.  Every inbound event runs its handler as a task; a task *)
(* is suspended at each await and the tasks interleave at these points.    *)
(* One action is the code a handler runs between two suspensions.          *)
(* Account store (db.py): the users table and the operations on credits,   *)
(* validity and the premium flag, against a clock.                         *)
(***************************************************************************)
EXTENDS Naturals, Integers, Sequences, FiniteSets, TLC

\* ---------------------------------------------------------------- bounds
NumUsers == 2
\* events received in a run
MaxEvents == 4
\* handlers running at the same time
MaxActive == 2
\* the clock of the account store runs from 0 to MaxTime
MaxTime == 2
\* amounts and days passed to the account store: -1..MaxAmount
MaxAmount == 2
\* credits of the explored accounts: -MaxCredits..MaxCredits
MaxCredits == 3

\* ------------------------------------------------------ program constants
MAX_IMAGES == 3
MAX_SIDE == 1536

Users == 1..NumUsers
Tasks == 1..MaxActive

\* ------------------------------------------------------------------ values
\* A text is a sequence of characters.  None and Absent are one-element
\* sequences whose element is no character, so that they compare with texts.
None == <<"None">>
Absent == <<"Absent">>
RawTexts == { <<>>, <<" ">>, <<"/", "a">>, <<"a">>, <<" ", "b", " ">> }

\* An image is <<its longest side, its encoding>>.  The pictures an image event
\* can carry; NoImage: the event carries no recognizable image.
NoImage == <<0, "">>
Pictures == {NoImage, <<MAX_SIDE, "orig">>, <<MAX_SIDE + 1, "orig">>}

\* References to list objects.  NoRef: the key "images" is not in user_data.
\* The list the session of user u refers to is named u, a list only running
\* handlers still refer to is named after the first of them, and FreshRef is
\* the list a step has just created.
NoRef == 0
ListIds == 1..(NumUsers + MaxActive)
FreshRef == NumUsers + MaxActive + 1

\* Messages sent to the user.
Msg(m, n, s) == [m |-> m, n |-> n, s |-> s]
NoMsg == Msg("", 0, <<>>)

\* What a step is: the handler it belongs to, the user, the stripped text of
\* the event (on_text), the message it sent or the exception that left it.
Step(by, u, text, msg) == [by |-> by, to |-> u, text |-> text, msg |-> msg]

\* Outcomes of an awaited transport call.
Outcomes == {"ok", "raise"}

VARIABLES
    user_data,   \* context.user_data of each user: images (a list reference), prompt
    heap,        \* the contents of the list objects
    USER_LOCKS,  \* per user: "absent" (no Lock object yet), "free", "locked"
    nevents,     \* number of events received
    task,        \* the running handlers: position and locals
    step,        \* the last step taken
    overlap,     \* history, per user: two handlers of the user ran at the same time
    expect,      \* history, per user: the images acknowledged since the session
                 \* was last emptied, in arrival order (kept while ~overlap)
    users,       \* db.py: the rows of the table users, by id
    now,         \* db.py: datetime.utcnow()
    call         \* db.py: the last call of the account store

botvars == <<user_data, heap, USER_LOCKS, nevents, task, step, overlap, expect>>
dbvars == <<users, now, call>>
vars == <<user_data, heap, USER_LOCKS, nevents, task, step, overlap, expect,
          users, now, call>>

\* --- the table users (db.py lines 16-26).  NULL is the empty text; a
\* timestamp is stored as its ISO text, <<t>> for the time t.
NULL == <<>>
isoformat(t) == <<t>>
fromisoformat(x) == x[1]
NoRow ==
    [id |-> 0, username |-> NULL, is_premium |-> 0, credits |-> 0,
     validity_expire_at |-> NULL, selected_model |-> NULL, tts_speed |-> NULL,
     created_at |-> NULL, updated_at |-> NULL]
Usernames == {NULL, <<"a">>, <<"b">>}
Amounts == (0 - 1)..MaxAmount
Call(op, u, arg) == [op |-> op, user |-> u, arg |-> arg]

\* a free handler slot
NoTask ==
    [kind |-> "none", user |-> 0, pc |-> "new", images |-> NoRef, text |-> None,
     b |-> NoImage, e |-> "", exc |-> "", reset |-> FALSE,
     img0 |-> <<>>, passed |-> <<>>, quiet |-> TRUE]

Init ==
    /\ user_data = [u \in Users |-> [images |-> NoRef, prompt |-> Absent]]
    /\ heap = [r \in ListIds |-> <<>>]
    /\ USER_LOCKS = [u \in Users |-> "absent"]
    /\ nevents = 0
    /\ task = [t \in Tasks |-> NoTask]
    /\ step = Step("", 0, None, NoMsg)
    /\ overlap = [u \in Users |-> FALSE]
    /\ expect = [u \in Users |-> <<>>]
    /\ users = [u \in Users |-> NoRow]
    /\ now = 0
    /\ call = Call("", 0, 0)

\* ----------------------------------------------------------------- helpers
Active(t) == task[t].pc # "new"

\* the positions of on_text inside the 'async with lock' block
Section == {"typing", "progress", "generate", "photo", "finished", "report", "delete"}

\* The images and the prompt a snapshot of the user's session shows.
SessImages(u) ==
    IF user_data[u].images = NoRef THEN <<>> ELSE heap[user_data[u].images]
SessPrompt(u) ==
    IF user_data[u].prompt = Absent THEN None ELSE user_data[u].prompt

\* str.strip()
RECURSIVE LStrip(_)
LStrip(s) == IF s # <<>> /\ Head(s) = " " THEN LStrip(Tail(s)) ELSE s
RECURSIVE RStrip(_)
RStrip(s) ==
    IF s # <<>> /\ s[Len(s)] = " " THEN RStrip(SubSeq(s, 1, Len(s) - 1)) ELSE s
Strip(s) == RStrip(LStrip(s))

\* text.startswith("/")
IsCommand(s) == s # <<>> /\ Head(s) = "/"

\* mutant: a new Lock object on every call
_get_lock_fresh(locks, u) == [locks EXCEPT ![u] = "free"]

\* lines 47-50
_get_lock(locks, u) ==
    IF locks[u] = "absent" THEN [locks EXCEPT ![u] = "free"] ELSE locks

\* mutant: the check of line 215 is missing
locked_never(locks, u) == FALSE

\* mutant: one lock for all users
locked_any(locks, u) == \E v \in DOMAIN locks : locks[v] = "locked"

\* Lock.locked()
locked(locks, u) == locks[u] = "locked"

\* mutant: acquire() ... release() without try/finally
release_unless_raised(locks, u, raised) ==
    IF raised THEN locks ELSE [locks EXCEPT ![u] = "free"]

\* Lock.release(), run by the 'async with' block on every exit, with or
\* without an exception
release(locks, u, raised) == [locks EXCEPT ![u] = "free"]

_get_state(ud, u) ==
    [ud EXCEPT ![u] = [images |-> IF @.images = NoRef THEN u ELSE @.images,
                       prompt |-> IF @.prompt = Absent THEN None ELSE @.prompt]]

\* lines 65-82: an image within MAX_SIDE is returned as it is, a larger one
\* is resized to MAX_SIDE and encoded again
_downscale_image_bytes(b) ==
    IF b[1] <= MAX_SIDE THEN b ELSE <<MAX_SIDE, "jpeg">>

\* mutant: > for >=
LimitReached_gt(images) == Len(images) > MAX_IMAGES

\* len(images) >= MAX_IMAGES
LimitReached(images) == Len(images) >= MAX_IMAGES

\* mutant: the check of line 210 is missing
NoImages_never(images) == FALSE

\* len(images) == 0
NoImages(images) == Len(images) = 0

\* mutant: images.insert(0, b)
AppendImage_front(images, b) == <<b>> \o images

\* images.append(b)
AppendImage(images, b) == Append(images, b)

\* mutant: the prompt is not reset
ResetProject_images_only(ud, u) == [ud EXCEPT ![u].images = FreshRef]

\* context.user_data["images"] = []; context.user_data["prompt"] = None
ResetProject(ud, u) == [ud EXCEPT ![u] = [images |-> FreshRef, prompt |-> None]]

\* mutant: a fixed text instead of {e}
FailureMessage_fixed(e) == Msg("failed", 0, <<>>)

\* f"Failed: {e}"
FailureMessage(e) == Msg("failed", 0, <<e>>)

\* an exception leaves the handler
Escaped(e) == Msg("exception", 0, <<e>>)

\* history: the other running handlers of the user saw the session change
Touch(tk, u, t) ==
    [x \in Tasks |->
        IF x # t /\ tk[x].user = u /\ tk[x].pc # "new"
        THEN [tk[x] EXCEPT !.quiet = FALSE] ELSE tk[x]]

\* a new event for user u: its handler starts in the first free slot
Arrive(t, u) ==
    /\ nevents < MaxEvents
    /\ ~Active(t)
    /\ \A x \in Tasks : x < t => Active(x)
    /\ nevents' = nevents + 1
    /\ overlap' = [overlap EXCEPT
                     ![u] = @ \/ (\E x \in Tasks : Active(x) /\ task[x].user = u)]

\* the handler returns (or an exception leaves it): its frame is gone
Return(tk, t) == [tk EXCEPT ![t] = NoTask]

\* --- list objects: a list lives as long as the session or a running handler
\* refers to it, and the lists are named as said at ListIds
Holders(tk, r) == {x \in Tasks : tk[x].images = r}
Min(S) == CHOOSE x \in S : \A y \in S : x <= y
NameOf(ud, tk, r) ==
    IF r = NoRef THEN NoRef
    ELSE IF \E u \in Users : ud[u].images = r
    THEN CHOOSE u \in Users : ud[u].images = r
    ELSE NumUsers + Min(Holders(tk, r))
Commit(ud, tk, h) ==
    /\ user_data' = [u \in Users |-> [ud[u] EXCEPT !.images = NameOf(ud, tk, @)]]
    /\ task' = [x \in Tasks |-> [tk[x] EXCEPT !.images = NameOf(ud, tk, @)]]
    /\ heap' = [c \in ListIds |->
                  LET src == {r \in ListIds \cup {FreshRef} :
                                /\ (\E u \in Users : ud[u].images = r) \/ Holders(tk, r) # {}
                                /\ NameOf(ud, tk, r) = c}
                  IN IF src = {} \/ src = {FreshRef} THEN <<>>
                     ELSE h[CHOOSE r \in src : TRUE]]

\* history: expect after a step of user u that leaves ex
Expect(u, ex) == [expect EXCEPT ![u] = IF overlap'[u] THEN <<>> ELSE ex]

\* ---------------------------------------------------------------- handlers
\* lines 160-163.  The reply is the handler's last call: nothing of the program
\* runs after it, whether it returns or raises.
clear_cmd(t, u) ==
    /\ Arrive(t, u)
    /\ Commit(ResetProject(user_data, u), Touch(task, u, t), heap)
    /\ step' = Step("clear_cmd", u, None, Msg("cleared", 0, <<>>))
    /\ expect' = Expect(u, <<>>)
    /\ USER_LOCKS' = USER_LOCKS

\* lines 166-171
status_cmd(t, u) ==
    /\ Arrive(t, u)
    /\ Commit(_get_state(user_data, u), task, heap)
    /\ step' = Step("status_cmd", u, None,
                    Msg("status", Len(SessImages(u)), SessPrompt(u)))
    /\ expect' = Expect(u, expect[u])
    /\ USER_LOCKS' = USER_LOCKS

\* lines 174-183 and 96-104: up to the download
on_image(t, u, pic) ==
    /\ Arrive(t, u)
    /\ LET ud == _get_state(user_data, u)
           ref == ud[u].images
       IN IF LimitReached(heap[ref])
          THEN /\ Commit(ud, task, heap)
               /\ step' = Step("on_image", u, None, Msg("limit", MAX_IMAGES, <<>>))
          ELSE IF pic = NoImage
          THEN /\ Commit(ud, task, heap)
               /\ step' = Step("on_image", u, None, Msg("onlyimage", 0, <<>>))
          ELSE /\ Commit(ud, [task EXCEPT ![t].kind = "image", ![t].user = u,
                                          ![t].pc = "download", ![t].images = ref,
                                          ![t].b = pic], heap)
               /\ step' = Step("on_image", u, None, NoMsg)
    /\ expect' = Expect(u, expect[u])
    /\ USER_LOCKS' = USER_LOCKS

\* lines 104-105, 183-194: the download returns or raises
on_image_downloaded(t, d) ==
    /\ task[t].pc = "download"
    /\ LET u == task[t].user
           ref == task[t].images
           b == _downscale_image_bytes(task[t].b)
           images == AppendImage(heap[ref], b)
       IN IF d = "raise"
          THEN /\ Commit(user_data, Return(task, t), heap)
               /\ step' = Step("on_image", u, None, Escaped("TransportError"))
               /\ expect' = expect
          ELSE /\ Commit(user_data,
                         Return(IF ref = user_data[u].images
                                THEN Touch(task, u, t) ELSE task, t),
                         [heap EXCEPT ![ref] = images])
               /\ step' = Step("on_image", u, None, Msg("ack", Len(images), <<>>))
               /\ expect' = [expect EXCEPT
                               ![u] = IF overlap[u] THEN <<>> ELSE Append(@, b)]
    /\ UNCHANGED <<USER_LOCKS, nevents, overlap>>

\* lines 198-222: up to the first suspension
on_text(t, u, raw) ==
    /\ Arrive(t, u)
    /\ expect' = Expect(u, expect[u])
    /\ LET text == Strip(raw)
       IN IF raw = <<>> \/ text = <<>> \/ IsCommand(text)
          THEN /\ Commit(user_data, task, heap)
               /\ step' = Step("on_text", u, text, NoMsg)
               /\ USER_LOCKS' = USER_LOCKS
          ELSE LET locks == _get_lock(USER_LOCKS, u)
                   ud == _get_state(user_data, u)
                   ref == ud[u].images
                   tk == [task EXCEPT ![t].kind = "text", ![t].user = u,
                                      ![t].images = ref, ![t].text = text,
                                      ![t].img0 = heap[ref]]
               IN IF NoImages(heap[ref])
                  THEN /\ Commit(ud, task, heap)
                       /\ step' = Step("on_text", u, text, Msg("needimage", 0, <<>>))
                       /\ USER_LOCKS' = locks
                  ELSE IF locked(locks, u)
                  THEN /\ Commit(ud, task, heap)
                       /\ step' = Step("on_text", u, text, Msg("busy", 0, <<>>))
                       /\ USER_LOCKS' = locks
                  ELSE IF locks[u] = "locked"
                  THEN \* Lock.acquire() suspends until the lock is released
                       /\ Commit(ud, [tk EXCEPT ![t].pc = "waiting"], heap)
                       /\ step' = Step("on_text", u, text, NoMsg)
                       /\ USER_LOCKS' = locks
                  ELSE /\ Commit([ud EXCEPT ![u].prompt = text],
                                 [tk EXCEPT ![t].pc = "typing"], heap)
                       /\ step' = Step("on_text", u, text, NoMsg)
                       /\ USER_LOCKS' = [locks EXCEPT ![u] = "locked"]

\* lines 219-222: the handler resumes from Lock.acquire() (had it waited) or
\* from send_chat_action, which returns or raises
on_text_typing(t, r) ==
    /\ task[t].pc \in {"waiting", "typing"}
    /\ LET u == task[t].user
       IN IF task[t].pc = "waiting"
          THEN /\ ~locked(USER_LOCKS, u)
               /\ USER_LOCKS' = [USER_LOCKS EXCEPT ![u] = "locked"]
               /\ Commit([user_data EXCEPT ![u].prompt = task[t].text],
                         [task EXCEPT ![t].pc = "typing"], heap)
               /\ step' = Step("on_text", u, None, NoMsg)
          ELSE IF r = "ok"
          THEN /\ Commit(user_data, [task EXCEPT ![t].pc = "progress"], heap)
               /\ step' = Step("on_text", u, None, NoMsg)
               /\ USER_LOCKS' = USER_LOCKS
          ELSE /\ Commit(user_data, Return(task, t), heap)
               /\ step' = Step("on_text", u, None, Escaped("TransportError"))
               /\ USER_LOCKS' = release(USER_LOCKS, u, TRUE)
    /\ UNCHANGED <<nevents, overlap, expect>>

\* mutant: the images are read from user_data again at the call
ImagesPassed_reread(h, ref, ud, u) == h[ud[u].images]

\* line 226: the list the handler got at line 209 is the one passed
ImagesPassed(h, ref, ud, u) == h[ref]

\* lines 223-226 and 116-131: the progress message is sent (or the call raises)
\* and _generate_edited_image runs up to its await
on_text_progress(t, r) ==
    /\ task[t].pc = "progress"
    /\ LET u == task[t].user
           images == ImagesPassed(heap, task[t].images, user_data, u)
       IN IF r = "raise"
          THEN /\ Commit(user_data, Return(task, t), heap)
               /\ step' = Step("on_text", u, None, Escaped("TransportError"))
               /\ USER_LOCKS' = release(USER_LOCKS, u, TRUE)
          ELSE /\ Commit(user_data,
                         [task EXCEPT
                            ![t].passed = images,
                            ![t].e = IF images = <<>> THEN "NoImagesUploaded" ELSE @,
                            ![t].pc = IF images = <<>> THEN "report" ELSE "generate"],
                         heap)
               /\ step' = Step("on_text", u, None, Msg("progress", 0, <<>>))
               /\ USER_LOCKS' = USER_LOCKS
    /\ UNCHANGED <<nevents, overlap, expect>>

GenOutcomes == {"image", "empty", "raise"}

\* lines 131-144, 226-232, 239: generate_content returns or raises
on_text_generate(t, g) ==
    /\ task[t].pc = "generate"
    /\ task' = [task EXCEPT
                  ![t].passed = IF g = "image" THEN @ ELSE <<>>,
                  ![t].e = IF g = "image" THEN @
                           ELSE IF g = "empty" THEN "NoImageReturned" ELSE "ApiError",
                  ![t].pc = IF g = "image" THEN "photo" ELSE "report"]
    /\ step' = Step("on_text", task[t].user, None, NoMsg)
    /\ UNCHANGED <<user_data, heap, USER_LOCKS, nevents, overlap, expect>>

\* lines 232-237, 239: reply_photo returns or raises
on_text_photo(t, r) ==
    /\ task[t].pc = "photo"
    /\ LET u == task[t].user
       IN IF r = "ok"
          THEN /\ Commit(ResetProject(user_data, u),
                         Touch([task EXCEPT ![t].reset = TRUE, ![t].passed = <<>>,
                                     ![t].pc = "finished"],
                               u, t),
                         heap)
               /\ step' = Step("on_text", u, None, Msg("photo", 0, task[t].text))
               /\ expect' = [expect EXCEPT ![u] = <<>>]
          ELSE /\ Commit(user_data,
                         [task EXCEPT ![t].e = "TransportError", ![t].passed = <<>>,
                                      ![t].pc = "report"],
                         heap)
               /\ step' = Step("on_text", u, None, NoMsg)
               /\ expect' = expect
    /\ UNCHANGED <<USER_LOCKS, nevents, overlap>>

\* lines 237, 239: the "Process finished" reply returns or raises
on_text_finished(t, r) ==
    /\ task[t].pc = "finished"
    /\ IF r = "ok"
       THEN /\ task' = [task EXCEPT ![t].reset = FALSE, ![t].pc = "delete"]
            /\ step' = Step("on_text", task[t].user, None, Msg("finished", 0, <<>>))
       ELSE /\ task' = [task EXCEPT ![t].e = "TransportError", ![t].pc = "report"]
            /\ step' = Step("on_text", task[t].user, None, NoMsg)
    /\ UNCHANGED <<user_data, heap, USER_LOCKS, nevents, overlap, expect>>

\* mutant: the reset of lines 235-236 moved to where it also runs on failure
on_text_report_resets(t, r) ==
    /\ task[t].pc = "report"
    /\ Commit(ResetProject(user_data, task[t].user),
              [task EXCEPT ![t].exc = IF r = "ok" THEN @ ELSE "TransportError",
                           ![t].reset = FALSE, ![t].pc = "delete"],
              heap)
    /\ step' = Step("on_text", task[t].user, None,
                    IF r = "ok" THEN FailureMessage(task[t].e) ELSE NoMsg)
    /\ UNCHANGED <<USER_LOCKS, nevents, overlap, expect>>

\* lines 239-241: the failure report returns or raises
on_text_report(t, r) ==
    /\ task[t].pc = "report"
    /\ IF r = "ok"
       THEN /\ task' = [task EXCEPT ![t].reset = FALSE, ![t].pc = "delete"]
            /\ step' = Step("on_text", task[t].user, None, FailureMessage(task[t].e))
       ELSE /\ task' = [task EXCEPT ![t].exc = "TransportError", ![t].reset = FALSE,
                                    ![t].pc = "delete"]
            /\ step' = Step("on_text", task[t].user, None, NoMsg)
    /\ UNCHANGED <<user_data, heap, USER_LOCKS, nevents, overlap, expect>>

\* lines 243-247, 219: progress_msg.delete() returns or raises (ignored), and
\* the 'async with' block is left, with the pending exception if there is one
on_text_delete(t) ==
    /\ task[t].pc = "delete"
    /\ Commit(user_data, Return(task, t), heap)
    /\ step' = Step("on_text", task[t].user, None,
                    IF task[t].exc = "" THEN NoMsg ELSE Escaped(task[t].exc))
    /\ USER_LOCKS' = release(USER_LOCKS, task[t].user, task[t].exc # "")
    /\ UNCHANGED <<nevents, overlap, expect>>

\* the events of the users in U and the steps of their handlers
NextOf(U) ==
    \/ \E t \in Tasks, u \in U : clear_cmd(t, u) /\ UNCHANGED dbvars
    \/ \E t \in Tasks, u \in U : status_cmd(t, u) /\ UNCHANGED dbvars
    \/ \E t \in Tasks, u \in U, pic \in Pictures : on_image(t, u, pic) /\ UNCHANGED dbvars
    \/ \E t \in Tasks, d \in Outcomes : on_image_downloaded(t, d) /\ UNCHANGED dbvars
    \/ \E t \in Tasks, u \in U, raw \in RawTexts : on_text(t, u, raw) /\ UNCHANGED dbvars
    \/ \E t \in Tasks, r \in Outcomes : on_text_typing(t, r) /\ UNCHANGED dbvars
    \/ \E t \in Tasks, r \in Outcomes : on_text_progress(t, r) /\ UNCHANGED dbvars
    \/ \E t \in Tasks, g \in GenOutcomes : on_text_generate(t, g) /\ UNCHANGED dbvars
    \/ \E t \in Tasks, r \in Outcomes : on_text_photo(t, r) /\ UNCHANGED dbvars
    \/ \E t \in Tasks, r \in Outcomes : on_text_finished(t, r) /\ UNCHANGED dbvars
    \/ \E t \in Tasks, r \in Outcomes : on_text_report(t, r) /\ UNCHANGED dbvars
    \/ \E t \in Tasks : on_text_delete(t) /\ UNCHANGED dbvars

\* One user's events, every interleaving of that user's handlers.
Next == NextOf({1})
Spec == Init /\ [][Next]_vars

\* The events of all users.
NextUsers == NextOf(Users)
SpecUsers == Init /\ [][NextUsers]_vars

\* the handler in slot t resumes from the call it awaits, which has returned
\* or raised (a handler awaits one call at a time)
Resume(t) ==
    \/ \E d \in Outcomes : on_image_downloaded(t, d) /\ UNCHANGED dbvars
    \/ \E r \in Outcomes : on_text_typing(t, r) /\ UNCHANGED dbvars
    \/ \E r \in Outcomes : on_text_progress(t, r) /\ UNCHANGED dbvars
    \/ \E g \in GenOutcomes : on_text_generate(t, g) /\ UNCHANGED dbvars
    \/ \E r \in Outcomes : on_text_photo(t, r) /\ UNCHANGED dbvars
    \/ \E r \in Outcomes : on_text_finished(t, r) /\ UNCHANGED dbvars
    \/ \E r \in Outcomes : on_text_report(t, r) /\ UNCHANGED dbvars
    \/ on_text_delete(t) /\ UNCHANGED dbvars

\* Every awaited external call (download, transport, generation) returns or
\* raises in the end, and the event loop resumes the handler that awaits it.
Fairness == \A t \in Tasks : WF_vars(Resume(t))
SpecFair == Init /\ [][Next]_vars /\ Fairness

\* ------------------------------------------------------------ account store
\* the largest of two integers (max)
Max(a, b) == IF a >= b THEN a ELSE b

\* lines 67-71: the row, NoRow for None
get_user(tbl, u) == tbl[u]

\* lines 73-82: UPDATE users SET ... WHERE id = ?; no row, no change
update_user_fields(tbl, u, fields, clock) ==
    IF tbl[u].id = 0 THEN tbl
    ELSE [tbl EXCEPT ![u] =
            [k \in DOMAIN @ |->
                IF k = "updated_at" THEN isoformat(clock)
                ELSE IF k \in DOMAIN fields THEN fields[k] ELSE @[k]]]

\* mutant: >= for >
is_valid_at_expiry(tbl, u, clock) ==
    LET user == get_user(tbl, u)
    IN IF user.id = 0 THEN FALSE
       ELSE IF user.validity_expire_at = NULL THEN FALSE
       ELSE fromisoformat(user.validity_expire_at) >= clock

\* lines 109-119
is_valid(tbl, u, clock) ==
    LET user == get_user(tbl, u)
    IN IF user.id = 0 THEN FALSE
       ELSE IF user.validity_expire_at = NULL THEN FALSE
       ELSE fromisoformat(user.validity_expire_at) > clock

\* mutant: INSERT OR REPLACE without the SELECT
ensure_user_replace(u, username) ==
    /\ users' = [users EXCEPT ![u] =
                   [NoRow EXCEPT !.id = u, !.username = username,
                                 !.tts_speed = <<"natural">>,
                                 !.created_at = isoformat(now),
                                 !.updated_at = isoformat(now)]]
    /\ call' = Call("ensure_user", u, 0)
    /\ UNCHANGED now

\* lines 55-65
ensure_user(u, username) ==
    /\ users' = IF users[u].id # 0 THEN users
                ELSE [users EXCEPT ![u] =
                        [NoRow EXCEPT !.id = u, !.username = username,
                                      !.tts_speed = <<"natural">>,
                                      !.created_at = isoformat(now),
                                      !.updated_at = isoformat(now)]]
    /\ call' = Call("ensure_user", u, 0)
    /\ UNCHANGED now

\* the account stays within the explored credits
InRange(c) == 0 - MaxCredits <= c /\ c <= MaxCredits

\* lines 84-90
add_credits(u, amount) ==
    /\ InRange(users[u].credits + amount)
    /\ users' = IF users[u].id = 0 THEN users
                ELSE [users EXCEPT ![u].credits = @ + amount,
                                   ![u].is_premium = 1,
                                   ![u].updated_at = isoformat(now)]
    /\ call' = Call("add_credits", u, amount)
    /\ UNCHANGED now

\* lines 92-98
remove_credits(u, amount) ==
    /\ InRange(users[u].credits - amount)
    /\ LET user == get_user(users, u)
           new_credits == Max(0, user.credits - amount)
           is_premium == IF new_credits > 0 /\ is_valid(users, u, now) THEN 1 ELSE 0
       IN users' = IF user.id = 0 THEN users
                   ELSE update_user_fields(users, u,
                            [credits |-> new_credits, is_premium |-> is_premium], now)
    /\ call' = Call("remove_credits", u, amount)
    /\ UNCHANGED now

\* lines 100-104
set_validity(u, days) ==
    /\ LET expire_at == isoformat(now + days)
           user == get_user(users, u)
           is_premium == IF user.id # 0 /\ user.credits > 0 THEN 1 ELSE 0
       IN users' = update_user_fields(users, u,
                       [validity_expire_at |-> expire_at, is_premium |-> is_premium],
                       now)
    /\ call' = Call("set_validity", u, days)
    /\ UNCHANGED now

\* lines 106-107
remove_validity(u) ==
    /\ users' = update_user_fields(users, u,
                     [validity_expire_at |-> NULL, is_premium |-> 0], now)
    /\ call' = Call("remove_validity", u, 0)
    /\ UNCHANGED now

\* time passes
Tick ==
    /\ now < MaxTime
    /\ now' = now + 1
    /\ call' = Call("", 0, 0)
    /\ UNCHANGED users

\* the calls of the account store for the users in U
NextDbOf(U) ==
    \/ \E u \in U, username \in Usernames : ensure_user(u, username) /\ UNCHANGED botvars
    \/ \E u \in U, amount \in Amounts : add_credits(u, amount) /\ UNCHANGED botvars
    \/ \E u \in U, amount \in Amounts : remove_credits(u, amount) /\ UNCHANGED botvars
    \/ \E u \in U, days \in Amounts : set_validity(u, days) /\ UNCHANGED botvars
    \/ \E u \in U : remove_validity(u) /\ UNCHANGED botvars
    \/ Tick /\ UNCHANGED botvars

NextDb == NextDbOf({1})
SpecDb == Init /\ [][NextDb]_vars


\* ------------------------------------------------------------------ claims
\* the handlers of user u inside the generation section
InSection(u) == {t \in Tasks : task[t].user = u /\ task[t].pc \in Section}

\* the step is the arrival of an event of user u, handled by handler `by`
Arrival(by, u) == nevents' = nevents + 1 /\ step'.by = by /\ step'.to = u

\* a text on_text accepts as a prompt: not empty, not a command
IsPrompt(text) == text # None /\ text # <<>> /\ ~IsCommand(text)

\* the step starts no handler and ends none
SameHandlers == \A t \in Tasks : task'[t].pc = "new" <=> task[t].pc = "new"

\* C1: for every user, at most one on_text handler is inside the generation
\* section (holding the user's lock) at any time.
C1_MutualExclusion == \A u \in Users : Cardinality(InSection(u)) <= 1

\* a prompt was just rejected as Busy while another handler of the user is in
\* the section
C1_Witness ==
    /\ step.by = "on_text" /\ step.msg.m = "busy"
    /\ Cardinality(InSection(step.to)) = 1

\* C2: the number of images in a user's session never exceeds MAX_IMAGES.
C2_ImagesBounded == \A u \in Users : Len(SessImages(u)) <= MAX_IMAGES

\* C3: whenever an on_text handler leaves the generation section, by a return
\* or by an exception, the user's lock is free afterwards.
C3_LockFreeOnExit ==
    [][\A t \in Tasks :
         (task[t].pc \in Section /\ task'[t].pc \notin Section)
             => USER_LOCKS'[task[t].user] = "free"]_vars

\* an exception has just left the section and the lock is free
C3_Witness ==
    /\ step.by = "on_text" /\ step.msg.m = "exception"
    /\ USER_LOCKS[step.to] = "free"
    /\ InSection(step.to) = {}

\* the handler t of on_text, for user u, ends with this step
Finishes(t, u) ==
    /\ task[t].kind = "text" /\ task[t].user = u
    /\ task[t].pc = "delete" /\ task'[t].pc = "new"

\* the errors of the generation call
GenErrors == {"NoImagesUploaded", "NoImageReturned", "ApiError"}

\* what the generation call of handler t did (read where the handler ends)
GenReturnedImage(t) == task[t].e \in {"", "TransportError"}
GenFailed(t) == task[t].e \in GenErrors

\* C4: when the generation call returned an image, the session has zero images
\* and no prompt when that on_text handler finishes, whatever happened in the
\* delivery steps (here even with no other handler changing the session).
C4_ResetAfterImage ==
    [][\A t \in Tasks, u \in Users :
         (Finishes(t, u) /\ GenReturnedImage(t) /\ task[t].quiet)
             => /\ SessImages(u)' = <<>>
                /\ SessPrompt(u)' = None]_vars

\* C5 as stated: when the generation call failed, after the handler finishes
\* the images are those the attempt started with and the prompt is the text.
C5_UnchangedOnFailure ==
    [][\A t \in Tasks, u \in Users :
         (Finishes(t, u) /\ GenFailed(t))
             => /\ SessImages(u)' = task[t].img0
                /\ SessPrompt(u)' = task[t].text]_vars

\* C5 amended: when the generation call failed and no other handler of the
\* user changed the session during the attempt, then after the handler
\* finishes the images are those the attempt started with (at least one), the
\* prompt is the stripped text of the event, and the lock is free.
C5_UnchangedOnFailureIfQuiet ==
    [][\A t \in Tasks, u \in Users :
         (Finishes(t, u) /\ GenFailed(t) /\ task[t].quiet)
             => /\ SessImages(u)' = task[t].img0
                /\ task[t].img0 # <<>>
                /\ SessPrompt(u)' = task[t].text
                /\ IsPrompt(task[t].text)
                /\ USER_LOCKS'[u] = "free"]_vars

\* a handler whose generation failed has reported and is about to finish, the
\* session is as the attempt found it, with the new prompt
C5_Witness ==
    \E t \in Tasks :
        /\ task[t].kind = "text" /\ task[t].pc = "delete"
        /\ GenFailed(t) /\ task[t].quiet
        /\ Len(task[t].img0) = 2
        /\ SessImages(task[t].user) = task[t].img0
        /\ SessPrompt(task[t].user) = task[t].text

\* the step is the arrival of a prompt of user u while u's lock is held
PromptWhileLocked(u) ==
    Arrival("on_text", u) /\ IsPrompt(step'.text) /\ USER_LOCKS[u] = "locked"

\* the step changes nothing of u's session and starts no handler
Rejected(u) ==
    /\ SessImages(u)' = SessImages(u)
    /\ SessPrompt(u)' = SessPrompt(u)
    /\ SameHandlers
    /\ \A t \in Tasks : task'[t].pc # "waiting"

\* C6 as stated: a prompt that arrives while the user's lock is held is
\* rejected at once with the Busy message and the session is unchanged.
C6_BusyWhileLocked ==
    [][\A u \in Users :
         PromptWhileLocked(u) => (step'.msg.m = "busy" /\ Rejected(u))]_vars

\* C6 amended: a prompt that arrives while the user's lock is held is rejected
\* at once, with the Busy message if the session has an image and with the
\* need-image-first message if it has none; the handler never waits on the
\* lock, starts no generation and leaves the session and the lock as they are.
C6_RejectedWhileLocked ==
    [][\A u \in Users :
         PromptWhileLocked(u)
             => /\ step'.msg.m = IF SessImages(u) = <<>> THEN "needimage" ELSE "busy"
                /\ Rejected(u)
                /\ USER_LOCKS'[u] = "locked"]_vars

\* a prompt other than the stored one was just rejected as Busy
C6_Witness ==
    /\ step.by = "on_text" /\ step.msg.m = "busy"
    /\ USER_LOCKS[step.to] = "locked"
    /\ SessPrompt(step.to) # step.text
    /\ SessPrompt(step.to) # None

\* C7: a non-empty, non-command text received while the user has zero images
\* is answered with the need-image-first message; the session stays empty, no
\* prompt is stored, the lock is not acquired and no handler enters the
\* generation section.
C7_NeedImageFirst ==
    [][\A u \in Users :
         (Arrival("on_text", u) /\ IsPrompt(step'.text) /\ SessImages(u) = <<>>)
             => /\ step'.msg.m = "needimage"
                /\ SessImages(u)' = <<>>
                /\ SessPrompt(u)' = None
                /\ (USER_LOCKS'[u] = "locked") <=> (USER_LOCKS[u] = "locked")
                /\ SameHandlers
                /\ InSection(u)' = InSection(u)]_vars

\* a prompt was just answered with the need-image-first message while the
\* lock is free
C7_Witness ==
    /\ step.by = "on_text" /\ step.msg.m = "needimage"
    /\ IsPrompt(step.text)
    /\ SessImages(step.to) = <<>> /\ SessPrompt(step.to) = None
    /\ USER_LOCKS[step.to] = "free"

\* C8: while the handlers of a user run one after another, the session holds
\* the successfully downloaded images in arrival order, never more than
\* MAX_IMAGES, and each acknowledgment reports the position of its image; an
\* image event received when the count equals MAX_IMAGES is answered with the
\* limit message and leaves the images and the prompt unchanged.
C8_SequentialImages ==
    [][\A u \in Users :
         /\ ~overlap'[u]
               => /\ SessImages(u)' = expect'[u]
                  /\ Len(SessImages(u)') <= MAX_IMAGES
         /\ (~overlap'[u] /\ step'.to = u /\ step'.msg.m = "ack")
               => /\ step'.msg.n = Len(SessImages(u)')
                  /\ \E t \in Tasks :
                        /\ task[t].pc = "download" /\ task'[t].pc = "new"
                        /\ SessImages(u)' =
                             Append(SessImages(u), _downscale_image_bytes(task[t].b))
         /\ (Arrival("on_image", u) /\ Len(SessImages(u)) = MAX_IMAGES)
               => /\ step'.msg = Msg("limit", MAX_IMAGES, <<>>)
                  /\ SessImages(u)' = SessImages(u)
                  /\ SessPrompt(u)' = SessPrompt(u)
                  /\ SameHandlers]_vars

\* MAX_IMAGES images were received one after another, two of them different,
\* and one more image event was just answered with the limit message
C8_Witness ==
    /\ step.by = "on_image" /\ step.msg.m = "limit"
    /\ ~overlap[step.to]
    /\ Len(SessImages(step.to)) = MAX_IMAGES
    /\ SessImages(step.to)[1] # SessImages(step.to)[2]

\* C9: after /clear is handled, in any state of the user, the session has zero
\* images and no prompt and the user's lock is free.
C9_ClearResetsAndFrees ==
    [][\A u \in Users :
         Arrival("clear_cmd", u)
             => /\ SessImages(u)' = <<>>
                /\ SessPrompt(u)' = None
                /\ USER_LOCKS'[u] # "locked"]_vars

\* C10: a failure of the generation call (an exception or no image) takes the
\* handler to its failure report and not out of the handler; the report is the
\* one failure message of the handler and carries the error; an exception that
\* leaves a handler is never an error of the generation call.
C10_FailureReported ==
    [][/\ \A t \in Tasks :
            /\ (task[t].pc = "generate" /\ task'[t].pc \notin {"generate", "photo"})
                  => /\ task'[t].pc = "report"
                     /\ task'[t].e \in GenErrors
                     /\ step'.msg = NoMsg
            /\ (task[t].pc = "report" /\ task[t].e \in GenErrors
                                       /\ task'[t].pc # "report")
                  => /\ task'[t].pc = "delete"
                     /\ \/ step'.msg = Msg("failed", 0, <<task[t].e>>)
                        \/ step'.msg = NoMsg /\ task'[t].exc = "TransportError"
       /\ (step' # step /\ step'.msg.m = "failed")
            => \E t \in Tasks : task[t].pc = "report" /\ task'[t].pc = "delete"
       /\ step'.msg.m = "exception" => step'.msg.s = <<"TransportError">>]_vars

\* the failure message for a generation call that returned no image was sent
C10_Witness ==
    /\ step.by = "on_text"
    /\ step.msg = Msg("failed", 0, <<"NoImageReturned">>)
    /\ \E t \in Tasks : task[t].pc = "delete" /\ task[t].e = "NoImageReturned"

\* the last call was op for the user u
Called(op, u) == call.op = op /\ call.user = u

\* a future expiry is stored for u
ExpiryInFuture(u) ==
    /\ users[u].validity_expire_at # NULL
    /\ now < fromisoformat(users[u].validity_expire_at)

\* C11: right after add_credits, remove_credits, set_validity or
\* remove_validity on an existing user, is_premium is set if and only if
\* credits > 0 or the expiry is set and lies in the future.
C11_PremiumDerived ==
    \A u \in Users :
        (/\ call.op \in {"add_credits", "remove_credits", "set_validity",
                          "remove_validity"}
         /\ call.user = u
         /\ users[u].id # 0)
            => ((users[u].is_premium = 1) <=> (users[u].credits > 0 \/ ExpiryInFuture(u)))

\* C12: credits >= 0 for every account in every state, and remove_credits
\* leaves credits = max(0, credits - amount).
C12_CreditsNonNegative ==
    [][\A u \in Users :
         /\ users'[u].credits >= 0
         /\ (call'.op = "remove_credits" /\ call'.user = u /\ users[u].id # 0)
               => users'[u].credits = Max(0, users[u].credits - call'.arg)]_vars

\* C13 as stated: is_valid is false without a validity record, true right
\* after set_validity(u, 1), false after remove_validity(u), and true exactly
\* while the expiry is set and now < expiry.
C13_IsValid ==
    \A u \in Users :
        /\ users[u].validity_expire_at = NULL => ~is_valid(users, u, now)
        /\ (Called("set_validity", u) /\ call.arg = 1) => is_valid(users, u, now)
        /\ Called("remove_validity", u) => ~is_valid(users, u, now)
        /\ is_valid(users, u, now) <=> ExpiryInFuture(u)

\* C13 amended: as C13, with set_validity(u, 1) called for a user whose row
\* exists.
C13_IsValidOfExisting ==
    \A u \in Users :
        /\ users[u].validity_expire_at = NULL => ~is_valid(users, u, now)
        /\ (Called("set_validity", u) /\ call.arg = 1 /\ users[u].id # 0)
              => is_valid(users, u, now)
        /\ Called("remove_validity", u) => ~is_valid(users, u, now)
        /\ is_valid(users, u, now) <=> ExpiryInFuture(u)

\* set_validity(u, 1) was just called, after an earlier validity had expired
C13_Witness ==
    \E u \in Users :
        /\ Called("set_validity", u) /\ call.arg = 1
        /\ users[u].id # 0
        /\ now > 0
        /\ users[u].validity_expire_at = isoformat(now + 1)
        /\ is_valid(users, u, now)

\* C14: ensure_user inserts the row with credits 0 and premium false when the
\* user is absent and leaves an existing row as it is; no call of the account
\* store deletes a row.
C14_EnsureIdempotent ==
    [][\A u \in Users :
         /\ (call'.op = "ensure_user" /\ call'.user = u)
               => IF users[u].id = 0
                  THEN /\ users'[u].id = u
                       /\ users'[u].credits = 0
                       /\ users'[u].is_premium = 0
                       /\ users'[u].validity_expire_at = NULL
                  ELSE users'[u] = users[u]
         /\ users[u].id # 0 => users'[u].id = u]_vars

\* ensure_user was just called, at a later time and under another name, for
\* an account with credits
C14_Witness ==
    \E u \in Users :
        /\ Called("ensure_user", u)
        /\ users[u].credits > 0
        /\ users[u].username = <<"a">>
        /\ users[u].created_at # isoformat(now)
        /\ users[u].updated_at # isoformat(now)

\* C15: the generation call is never given an empty image sequence, and the
\* check of line 121 for it never fires, also when /clear is handled between
\* the acceptance of the prompt and the call.
C15_GenerateNonEmpty ==
    \A t \in Tasks :
        /\ task[t].pc = "generate" => Len(task[t].passed) >= 1
        /\ task[t].e # "NoImagesUploaded"

\* the generation call is in flight with the images of a session that /clear
\* emptied after the prompt was accepted
C15_Witness ==
    \E t \in Tasks :
        /\ task[t].pc = "generate"
        /\ ~task[t].quiet
        /\ SessImages(task[t].user) = <<>>
        /\ task[t].passed = task[t].img0
        /\ task[t].passed # <<>>

\* C16: under fair scheduling, with every external call returning or raising
\* in the end, a user whose lock is held (Generating) gets to a state where
\* the lock is free and no handler of the user is in the section.
C16_GeneratingEnds ==
    \A u \in Users :
        (USER_LOCKS[u] = "locked") ~> (USER_LOCKS[u] = "free" /\ InSection(u) = {})

\* a generation has failed and ended: the images and the prompt are kept and
\* the lock is free (Ready)
C16_Witness ==
    \E u \in Users :
        /\ USER_LOCKS[u] = "free" /\ InSection(u) = {}
        /\ SessImages(u) # <<>> /\ IsPrompt(SessPrompt(u))
        /\ step.by = "on_text" /\ step.to = u /\ step.msg = NoMsg

\* C17: a step taken for user A changes neither the session nor the lock of
\* another user B, and a prompt of B is rejected as Busy only when B's own
\* lock is held.
C17_UsersIsolated ==
    [][\A b \in Users :
         /\ step'.to # b
               => /\ SessImages(b)' = SessImages(b)
                  /\ SessPrompt(b)' = SessPrompt(b)
                  /\ USER_LOCKS'[b] = USER_LOCKS[b]
         /\ (Arrival("on_text", b) /\ step'.msg.m = "busy")
               => USER_LOCKS[b] = "locked" /\ InSection(b) # {}]_vars

\* two users are in Generating at the same time
C17_Witness ==
    \E a, b \in Users :
        /\ a # b
        /\ USER_LOCKS[a] = "locked" /\ USER_LOCKS[b] = "locked"
        /\ \E t \in InSection(a) : task[t].pc = "generate"
        /\ \E t \in InSection(b) : task[t].pc = "generate"
        /\ step.to = b /\ SessImages(a) # SessImages(b)

\* C18: a run of on_text that sends the failure message has not reset the
\* session.
C18_ResetOrFailure ==
    [][\A t \in Tasks :
         (task[t].pc = "report" /\ task'[t].pc = "delete" /\ step'.msg.m = "failed")
             => ~task[t].reset]_vars

\* C19: an acknowledged image is in the session when it is acknowledged, and
\* the reset at the end of a successful generation removes only images that
\* were passed to that generation call.
C19_NoImageLost ==
    [][\A u \in Users :
         /\ (step'.by = "on_image" /\ step'.to = u /\ step'.msg.m = "ack"
                /\ \E t \in Tasks : task[t].pc = "download" /\ task'[t].pc = "new")
               => /\ Len(SessImages(u)') = step'.msg.n
                  /\ Len(SessImages(u)') = Len(SessImages(u)) + 1
         /\ \A t \in Tasks :
               (task[t].user = u /\ task[t].pc = "photo" /\ task'[t].pc = "finished")
                   => SessImages(u) = task[t].passed]_vars
====
